---- MODULE Spec2Model ----
(***************************************************************************)
(* Model of the ElectricityMeter firmware: the RS-485 exchange, the        *)
(* session (open channel) manager, the poller and the dump scheduler, in   *)
(* its three variants:                                                     *)
(*   "full"    src/unnamed/part_000  (energy counters, query command)      *)
(*   "reduced" src/unnamed/part_001  (validValues, no energy, no command)  *)
(*   "status"  src/ElectricityMeter.ino (status character, no session)     *)
(* Time is the value of millis(), in milliseconds.                         *)
(***************************************************************************)
EXTENDS Integers, Sequences, FiniteSets, TLC

VARIABLES
  variant,            \* which of the three sketches runs
  now,                \* millis()
  pc,                 \* position in loop(): "update", "poll", "dump", "cmd", "idle"
  updateTimeout,      \* Timeout updateTimeout(0)
  openChannelTimeout, \* Timeout openChannelTimeout(0)
  dump,               \* Timeout dump(INITIAL_DUMP_INTERVAL)
  meas,               \* volts[], amps[], watts[], hertz, curDayEnergy, prevDayEnergy
  validValues,        \* int8_t validValues
  status,             \* char status (src/ElectricityMeter.ino)
  firstDump,          \* bool firstDump
  tail,               \* the three chars of dumpSLine from highlightPtr on
  readIdx,            \* updateValues(): index of the next read of the cycle
  cnt,                \* updateValues(): local cnt
  meter,              \* environment: how the meter answers
  payload,            \* environment: the data bytes the meter reports
  hist,               \* history (observations of the run, never read by the program)
  rx,                 \* rs485's receive buffer: the bytes received and not yet read
  line,               \* environment: the answer on its way and the time it arrives
  xchg                \* sendReceiveRaw() in progress: n, resp, timeout

vars == <<variant, now, pc, updateTimeout, openChannelTimeout, dump, meas,
          validValues, status, firstDump, tail, readIdx, cnt,
          meter, payload, hist, rx, line, xchg>>

\* the variables of the exchange taken step by step (SpecExchange)
busvars == <<rx, line, xchg>>

-----------------------------------------------------------------------------
(* Program constants *)

INITIAL_DUMP_INTERVAL == 2000
PERIODIC_DUMP_INTERVAL == 60000
PERIODIC_DUMP_SKEW == 5000
RS485_DELAY == 10
UPDATE_PERIOD == 500
OPEN_CHANNEL_PERIOD == 10000
EXPECTED_VALUES == 13
INVALID_VALUE == 2147483647

RS485_TIMEOUT(v) == IF v = "status" THEN 100 ELSE 200

STATUS_UNKNOWN == "?"
STATUS_OK == "*"
HIGHLIGHT_CHAR == "*"
NUL == "NUL"
DUMP_REGULAR == NUL
DUMP_FIRST == HIGHLIGHT_CHAR
DUMP_QUERY == "?"
CMD_NONE == "none"
CMD_QUERY == "?"

Variants == {"full", "reduced", "status"}

-----------------------------------------------------------------------------
(* Bounds of the exploration *)

ReplyTime == 20        \* ms a full-length answer takes to arrive
MaxPolls == 2          \* Spec: poll cycles started
MaxMeterChanges == 1   \* Spec: times the meter changes its behaviour
MaxTime == 72000       \* SpecDump: no poll cycle starts after this time
MaxQueries == 2        \* SpecDump: query commands received
MaxQueryTime == 3000   \* SpecDump: no query command arrives after this time
MaxSessionSteps == 6   \* SpecSession: calls of checkChannel() and waits between them
MaxExchangePolls == 2  \* SpecExchange: poll cycles started
LateBy == 5            \* SpecExchange: ms after the timeout at which a late answer arrives

-----------------------------------------------------------------------------
(* Timeout (library <Timeout.h>): a deadline that fires once.              *)
(* on = enabled, at = the value of millis() at which it expires.           *)

TimeoutDisabled == [on |-> FALSE, at |-> 0]

\* Timeout::reset(interval), also the constructor Timeout(interval)
TimeoutReset(t, interval) == [on |-> TRUE, at |-> t + interval]

\* Timeout::check() fires once: it answers true when enabled and expired ...
TimeoutFires(tm, t) == tm.on /\ t >= tm.at

\* ... and is then disabled until the next reset
TimeoutAfterCheck(tm, t) == IF TimeoutFires(tm, t) THEN TimeoutDisabled ELSE tm

-----------------------------------------------------------------------------
(* Frames and checksum *)

RECURSIVE WeightedSum(_, _)
WeightedSum(bytes, i) ==
  IF i > Len(bytes) THEN 0 ELSE i * bytes[i] + WeightedSum(bytes, i + 1)

\* computeCRC(buf, n): the two checksum bytes of the n bytes before them
computeCRC(bytes) ==
  LET s == (65535 + WeightedSum(bytes, 1)) % 65536
  IN  <<s % 256, s \div 256>>

Frame(body) == body \o computeCRC(body)

Corrupt(frame) ==
  [i \in 1..Len(frame) |->
     IF i = Len(frame) THEN (frame[i] + 1) % 256 ELSE frame[i]]

Zeros(n) == [i \in 1..n |-> 0]

Payloads == { <<0, 0, 0, 0>>, <<0, 100, 0, 0>>, <<255, 127, 255, 255>> }

MeterModes == {"ok", "silent", "garbled", "refuse"}

\* The body (all but the checksum) of the meter's answer to a well-formed request
AnswerBody(kind, p) ==
  CASE kind = "open"   -> <<0, 0>>
    [] kind = "value"  -> <<0, p[1], p[2], p[3]>>
    [] kind = "energy" -> <<0, p[1], p[2], p[3], p[4]>> \o Zeros(12)

\* What arrives on the wire after a request of the given kind: the answer, nothing,
\* the answer with a damaged checksum, or a 4-byte error answer
ReplyOf(mode, kind, p) ==
  CASE mode = "ok"      -> Frame(AnswerBody(kind, p))
    [] mode = "silent"  -> << >>
    [] mode = "garbled" -> Corrupt(Frame(AnswerBody(kind, p)))
    [] mode = "refuse"  -> Frame(<<0, 5>>)

ReplyTable ==
  [mode \in MeterModes, kind \in {"open", "value", "energy"}, p \in Payloads |->
     ReplyOf(mode, kind, p)]

MeterReply(mode, kind, p) == ReplyTable[mode, kind, p]

Min(a, b) == IF a < b THEN a ELSE b

\* sendReceiveRaw: the bytes collected and the time the exchange took
sendReceiveRaw(v, wire, resp_size) ==
  LET n == Min(Len(wire), resp_size)
  IN  [n    |-> n,
       resp |-> SubSeq(wire, 1, n),
       dur  |-> RS485_DELAY + (IF n = resp_size THEN ReplyTime ELSE RS485_TIMEOUT(v))]

\* a plausible slip: only the first checksum byte compared
sendReceiveLowByte(v, wire, resp_size) ==
  LET r == sendReceiveRaw(v, wire, resp_size)
      c == IF r.n < resp_size THEN << >>
           ELSE computeCRC(SubSeq(r.resp, 1, resp_size - 2))
  IN  [ok   |-> /\ r.n >= resp_size
                /\ r.resp[resp_size - 1] = c[1],
       resp |-> r.resp,
       dur  |-> r.dur]

\* sendReceive: full length and matching checksum
sendReceive(v, wire, resp_size) ==
  LET r == sendReceiveRaw(v, wire, resp_size)
      c == IF r.n < resp_size THEN << >>
           ELSE computeCRC(SubSeq(r.resp, 1, resp_size - 2))
  IN  [ok   |-> /\ r.n >= resp_size
                /\ r.resp[resp_size - 1] = c[1]
                /\ r.resp[resp_size] = c[2],
       resp |-> r.resp,
       dur  |-> r.dur]

\* openChannel: 4-byte answer whose byte[1] is 0x00
openChannel(v, wire) ==
  LET r == sendReceive(v, wire, 4)
  IN  [ok |-> r.ok /\ r.resp[2] = 0, dur |-> r.dur]

\* a plausible slip: the session timer is not re-armed after a successful open
checkChannelNoRearm(v, tm, t, wire) ==
  IF TimeoutFires(tm, t)
  THEN LET o == openChannel(v, wire)
       IN  [ret |-> o.ok, tm |-> TimeoutAfterCheck(tm, t), t |-> t + o.dur,
            exch |-> 1, openFailed |-> ~o.ok]
  ELSE [ret |-> TRUE, tm |-> TimeoutAfterCheck(tm, t), t |-> t,
        exch |-> 0, openFailed |-> FALSE]

\* checkChannel at time t: the answer, the timer and the time afterwards, the
\* number of bus exchanges made and whether an open-channel exchange failed
checkChannel(v, tm, t, wire) ==
  IF TimeoutFires(tm, t)
  THEN LET o == openChannel(v, wire)
       IN  IF ~o.ok
           THEN [ret |-> FALSE, tm |-> TimeoutAfterCheck(tm, t), t |-> t + o.dur,
                 exch |-> 1, openFailed |-> TRUE]
           ELSE [ret |-> TRUE, tm |-> TimeoutReset(t + o.dur, OPEN_CHANNEL_PERIOD),
                 t |-> t + o.dur, exch |-> 1, openFailed |-> FALSE]
  ELSE [ret |-> TRUE, tm |-> TimeoutAfterCheck(tm, t), t |-> t,
        exch |-> 0, openFailed |-> FALSE]

-----------------------------------------------------------------------------
(* Reading and converting values *)

\* the top byte of a 32-bit pattern read as int32_t (two's complement)
SignedByte(b) == IF b >= 128 THEN b - 256 ELSE b

\* a plausible slip: the two high bits of resp[1] not masked off
DecodeValueNoMask(resp) == resp[2] * 65536 + resp[4] * 256 + resp[3]

\* readValue's decoding of a 6-byte answer (resp[1], resp[2], resp[3])
DecodeValue(resp) == (resp[2] % 64) * 65536 + resp[4] * 256 + resp[3]

\* readEnergy's decoding of a 19-byte answer (resp[1] .. resp[4])
DecodeEnergy(resp) ==
  resp[4] + resp[5] * 256 + resp[2] * 65536 + SignedByte(resp[3]) * 16777216

\* a plausible slip: zero returned on failure in every variant
FailValueZero(v) == 0

\* what readValue returns when it has nothing to return
FailValue(v) == IF v = "reduced" THEN 0 ELSE INVALID_VALUE

\* readValue(code) and readEnergy(num) at time t, the meter answering wireOpen to
\* an open-channel request and wireRead to the read request
readValue(v, kind, tm, t, wireOpen, wireRead) ==
  LET c == IF v = "status"
           THEN [ret |-> TRUE, tm |-> tm, t |-> t, exch |-> 0, openFailed |-> FALSE]
           ELSE checkChannel(v, tm, t, wireOpen)
      r == sendReceive(v, wireRead, IF kind = "energy" THEN 19 ELSE 6)
  IN  IF ~c.ret
      THEN [value |-> FailValue(v), tm |-> c.tm, t |-> c.t, chan |-> c,
            exch |-> c.exch, fails |-> c.exch, readSent |-> FALSE, readOk |-> FALSE]
      ELSE IF ~r.ok
      THEN [value |-> FailValue(v), tm |-> c.tm, t |-> c.t + r.dur, chan |-> c,
            exch |-> c.exch + 1, fails |-> 1, readSent |-> TRUE, readOk |-> FALSE]
      ELSE [value |-> IF kind = "energy" THEN DecodeEnergy(r.resp)
                      ELSE DecodeValue(r.resp),
            tm |-> c.tm, t |-> c.t + r.dur, chan |-> c,
            exch |-> c.exch + 1, fails |-> 0, readSent |-> TRUE, readOk |-> TRUE]

Pow10(d) == CASE d = 0 -> 1 [] d = 1 -> 10 [] d = 2 -> 100 [] d = 3 -> 1000

\* FixNum<int32_t,prec>(FixNum<int32_t,prec2>): the mantissa rescaled, the
\* invalid mantissa kept
Rescale(m, prec2, prec) ==
  IF m = INVALID_VALUE THEN INVALID_VALUE
  ELSE LET mul == Pow10(prec2 - prec)
       IN  IF m >= 0 THEN (m + mul \div 2) \div mul
           ELSE -((-m + mul \div 2) \div mul)

\* updateValue(value, x): the value stored afterwards and the count it adds
updateValue(v, old, x, prec2, prec) ==
  CASE v = "full" ->
         IF x = INVALID_VALUE THEN [value |-> old, inc |-> 0]
         ELSE [value |-> Rescale(x, prec2, prec), inc |-> 1]
    [] v = "reduced" ->
         IF x = 0 THEN [value |-> old, inc |-> 0]
         ELSE [value |-> Rescale(x, prec2, prec), inc |-> 1]
    [] v = "status" ->
         [value |-> Rescale(x, prec2, prec), inc |-> 0]

Quantity(arr, i, kind, prec2, prec) ==
  [arr |-> arr, i |-> i, kind |-> kind, prec2 |-> prec2, prec |-> prec]

\* the reads of one updateValues() pass, in order
ReadPlan(v) ==
  [i \in 1..3 |-> Quantity("volts", i, "value", 2, 1)] \o
  [i \in 1..3 |-> Quantity("amps", i, "value", 3, 1)] \o
  [i \in 1..4 |-> Quantity("watts", i - 1, "value", 2, 1)] \o
  << Quantity("hertz", 0, "value", 2, 1) >> \o
  (IF v = "full"
   THEN << Quantity("curDayEnergy", 0, "energy", 0, 0),
           Quantity("prevDayEnergy", 0, "energy", 0, 0) >>
   ELSE << >>)

\* the number of quantities validValues counts
ExpectedCount(v) == IF v = "full" THEN EXPECTED_VALUES ELSE Len(ReadPlan(v))

Current(m, q) ==
  IF q.arr \in {"volts", "amps", "watts"} THEN m[q.arr][q.i] ELSE m[q.arr]

Store(m, q, val) ==
  IF q.arr \in {"volts", "amps", "watts"}
  THEN [m EXCEPT ![q.arr][q.i] = val]
  ELSE [m EXCEPT ![q.arr] = val]

-----------------------------------------------------------------------------
(* The dump *)

\* random(-PERIODIC_DUMP_SKEW, PERIODIC_DUMP_SKEW): the least, the middle and the
\* greatest value it can return
Skews == {-PERIODIC_DUMP_SKEW, 0, PERIODIC_DUMP_SKEW - 1}

\* a plausible slip: a regular dump leaves the chars at highlightPtr as they are
SetMarkerKept(tl, dumpType) ==
  IF dumpType = DUMP_REGULAR
  THEN tl
  ELSE IF dumpType # HIGHLIGHT_CHAR
  THEN [tl EXCEPT ![1] = dumpType, ![2] = HIGHLIGHT_CHAR, ![3] = NUL]
  ELSE [tl EXCEPT ![1] = dumpType, ![2] = NUL]

\* makeDump's "format terminator char": the chars at highlightPtr afterwards
SetMarker(tl, dumpType) ==
  IF dumpType = DUMP_REGULAR
  THEN [tl EXCEPT ![1] = NUL]
  ELSE IF dumpType # HIGHLIGHT_CHAR
  THEN [tl EXCEPT ![1] = dumpType, ![2] = HIGHLIGHT_CHAR, ![3] = NUL]
  ELSE [tl EXCEPT ![1] = dumpType, ![2] = NUL]

\* the chars a C string starting at highlightPtr prints: those before the first NUL
RECURSIVE UpToNul(_, _)
UpToNul(tl, i) ==
  IF i > Len(tl) \/ tl[i] = NUL THEN << >> ELSE <<tl[i]>> \o UpToNul(tl, i + 1)

DumpKind(dumpType) ==
  CASE dumpType = DUMP_REGULAR -> "regular"
    [] dumpType = DUMP_FIRST   -> "first"
    [] dumpType = DUMP_QUERY   -> "query"

\* what the run has shown once a dump of the given type is printed at time t
DumpSeen(h, dumpType, marker, t) ==
  LET auto == dumpType # DUMP_QUERY
  IN  [h EXCEPT
        !.dumps         = IF @ < 2 THEN @ + 1 ELSE @,
        !.firstOutAt    = IF h.dumps = 0 THEN t ELSE @,
        !.firstOutMark  = IF h.dumps = 0 THEN marker ELSE @,
        !.firstCount    = IF dumpType = DUMP_FIRST /\ @ < 2 THEN @ + 1 ELSE @,
        !.lastKind      = DumpKind(dumpType),
        !.lastMark      = marker,
        !.lastAuto      = IF auto THEN t ELSE @,
        !.autoGap       = IF auto /\ h.lastAuto # -1 THEN t - h.lastAuto ELSE @]

\* a plausible slip: the initial interval used for re-arming
RearmIntervalInitial(skew) == INITIAL_DUMP_INTERVAL + skew

\* the interval makeDump re-arms the dump timer with
RearmInterval(skew) == PERIODIC_DUMP_INTERVAL + skew

\* a plausible slip: the early return placed after firstDump = false
makeDumpReturnsLate(dumpType, tm, h) ==
  IF variant = "status" /\ status # STATUS_OK
  THEN /\ dump' = tm
       /\ hist' = h
       /\ firstDump' = FALSE
       /\ UNCHANGED tail
  ELSE \E skew \in Skews :
         /\ tail' = SetMarker(tail, dumpType)
         /\ hist' = DumpSeen(h, dumpType, UpToNul(tail', 1), now)
         /\ dump' = TimeoutReset(now, RearmInterval(skew))
         /\ firstDump' = FALSE

\* makeDump(dumpType) called at time t with the dump timer tm; sets dump',
\* firstDump', tail' and hist'
makeDump(dumpType, tm, h) ==
  IF variant = "status" /\ status # STATUS_OK
  THEN /\ dump' = tm
       /\ hist' = h
       /\ UNCHANGED <<firstDump, tail>>
  ELSE \E skew \in Skews :
         /\ tail' = SetMarker(tail, dumpType)
         /\ hist' = DumpSeen(h, dumpType, UpToNul(tail', 1), now)
         /\ dump' = TimeoutReset(now, RearmInterval(skew))
         /\ firstDump' = FALSE

-----------------------------------------------------------------------------
(* What the run has shown so far *)

\* a checkChannel call made at time t with result c
SessionSeen(h, c, t) ==
  LET expired == h.opened # -1 /\ t - h.opened >= OPEN_CHANNEL_PERIOD
      success == c.exch = 1 /\ ~c.openFailed
  IN  [h EXCEPT
        !.called         = TRUE,
        !.callAt         = t,
        !.callRet        = c.ret,
        !.callExch       = c.exch,
        !.callOpenFailed = c.openFailed,
        !.callPrevOpened = h.opened,
        !.callFirstAfter = expired /\ h.afterExpiry = 0,
        !.opened         = IF success THEN c.t ELSE @,
        !.afterExpiry    = IF success THEN 0 ELSE IF expired THEN 1 ELSE @,
        !.broken         = IF c.openFailed THEN TRUE ELSE IF c.exch = 1 THEN FALSE ELSE @]

\* an updateValues() pass begins, at time now
CycleBegins(h, m) ==
  [h EXCEPT !.polls = @ + 1, !.cycExch = 0, !.cycFail = 0, !.cycChanFailed = FALSE,
            !.cycAfterFail = 0, !.cycDone = FALSE, !.measBefore = m,
            !.cycStart = now,
            !.cycGap = IF h.cycStart # -1 THEN now - h.cycStart ELSE @]

\* one read of the pass has returned r
ReadSeen(h, r, last) ==
  [h EXCEPT !.cycExch       = @ + r.exch,
            !.cycFail       = @ + r.fails,
            !.cycAfterFail  = IF h.cycChanFailed THEN @ + r.exch ELSE @,
            !.cycChanFailed = @ \/ ~r.chan.ret,
            !.cycDone       = last]

\* whether the first size bytes of wire end with the checksum of those before
ChecksumMatches(wire, size) ==
  /\ Len(wire) >= size
  /\ <<wire[size - 1], wire[size]>> = computeCRC(SubSeq(wire, 1, size - 2))

\* ChecksumMatches for each answer the meter can give to a read request
ValidTable ==
  [mode \in MeterModes, kind \in {"value", "energy"}, p \in Payloads |->
     ChecksumMatches(ReplyTable[mode, kind, p], IF kind = "energy" THEN 19 ELSE 6)]

\* one read of the pass: the quantity q, what readValue returned (r), what
\* updateValue did (u) with the stored value old, the bytes on the wire
StoreSeen(h, q, r, u, old, wire, valid) ==
  LET size == IF q.kind = "energy" THEN 19 ELSE 6
      open == /\ h.opened # -1
              /\ ~h.broken
              /\ r.chan.t - h.opened <= OPEN_CHANNEL_PERIOD
  IN  [h EXCEPT
        !.rd = [seen   |-> TRUE,
                kind   |-> q.kind,
                prec2  |-> q.prec2,
                prec   |-> q.prec,
                sent   |-> r.readSent,
                ok     |-> r.readOk,
                n      |-> IF r.readSent THEN Min(Len(wire), size) ELSE 0,
                size   |-> size,
                valid  |-> r.readSent /\ valid,
                value  |-> r.value,
                old    |-> old,
                new    |-> u.value,
                inc    |-> u.inc,
                closed |-> r.readSent /\ ~open],
        !.anyReadOk = @ \/ r.readOk]

\* no answer on its way
LineIdle == [bytes |-> << >>, at |-> 0]

\* no exchange in progress
XchgIdle ==
  [phase |-> "idle", kind |-> "none", size |-> 0, n |-> 0, resp |-> << >>,
   timeout |-> TimeoutDisabled, stale |-> FALSE, leftover |-> FALSE,
   ended |-> "none"]

Meas0 ==
  [volts |-> [i \in 0..3 |-> 0], amps |-> [i \in 0..3 |-> 0],
   watts |-> [i \in 0..3 |-> 0], hertz |-> 0,
   curDayEnergy |-> 0, prevDayEnergy |-> 0]

Hist0 ==
  [polls |-> 0, changes |-> 0, queries |-> 0, steps |-> 0,
   cycExch |-> 0, cycFail |-> 0, cycChanFailed |-> FALSE, cycAfterFail |-> 0,
   cycDone |-> FALSE, measBefore |-> Meas0,
   called |-> FALSE, callAt |-> 0, callRet |-> FALSE, callExch |-> 0,
   callOpenFailed |-> FALSE, callPrevOpened |-> -1, callFirstAfter |-> FALSE,
   opened |-> -1, afterExpiry |-> 0, broken |-> FALSE,
   dumps |-> 0, firstOutAt |-> -1, firstOutMark |-> << >>, firstCount |-> 0,
   lastKind |-> "none", lastMark |-> << >>, lastAuto |-> -1, autoGap |-> -1,
   cycStart |-> -1, cycGap |-> -1,
   rd |-> [seen |-> FALSE, kind |-> "none", prec2 |-> 0, prec |-> 0,
           sent |-> FALSE, ok |-> FALSE, n |-> 0, size |-> 0, valid |-> FALSE,
           value |-> 0, old |-> 0, new |-> 0, inc |-> 0, closed |-> FALSE],
   anyReadOk |-> FALSE]

-----------------------------------------------------------------------------
(* The state after construction *)

Init ==
  /\ variant \in Variants
  /\ now = 0
  /\ pc = "update"
  /\ updateTimeout = TimeoutReset(0, 0)
  /\ openChannelTimeout = TimeoutReset(0, 0)
  /\ dump = TimeoutReset(0, INITIAL_DUMP_INTERVAL)
  /\ meas = Meas0
  /\ validValues = 0
  /\ status = STATUS_UNKNOWN
  /\ firstDump = TRUE
  /\ tail = <<HIGHLIGHT_CHAR, " ", NUL>>
  /\ readIdx = 0
  /\ cnt = 0
  /\ meter \in MeterModes
  /\ payload \in Payloads
  /\ hist = Hist0
  /\ rx = << >>
  /\ line = LineIdle
  /\ xchg = XchgIdle

-----------------------------------------------------------------------------
(* loop(): updateState(); dumpState(); blinkLed.blink(); executeCommand()   *)

\* a plausible slip: cnt keeps its value from the previous pass
cntKept(prev) == prev

\* updateValues(): int8_t cnt = 0
cntInit(prev) == 0

\* a plausible slip: the poll timer re-armed with no interval
PollRearmNow(t) == TimeoutReset(t, 0)

\* updateState(): updateTimeout.reset(UPDATE_PERIOD)
PollRearm(t) == TimeoutReset(t, UPDATE_PERIOD)

\* updateState() up to the first read of updateValues(); in the "status" variant
\* updateValues() begins with openChannel()
UpdateState ==
  /\ pc = "update"
  /\ IF TimeoutFires(updateTimeout, now)
     THEN /\ updateTimeout' = PollRearm(now)
          /\ IF variant = "status"
             THEN LET o == openChannel(variant, MeterReply(meter, "open", payload))
                      h == CycleBegins(hist, meas)
                  IN  /\ now' = now + o.dur
                      /\ status' = IF o.ok THEN STATUS_OK ELSE STATUS_UNKNOWN
                      /\ readIdx' = IF o.ok THEN 1 ELSE 0
                      /\ pc' = IF o.ok THEN "poll" ELSE "dump"
                      /\ hist' = [h EXCEPT !.cycExch = 1,
                                           !.cycFail = IF o.ok THEN 0 ELSE 1,
                                           !.cycDone = ~o.ok,
                                           !.opened = IF o.ok THEN now + o.dur ELSE @,
                                           !.broken = ~o.ok]
                      /\ cnt' = cnt
             ELSE /\ cnt' = cntInit(cnt)
                  /\ readIdx' = 1
                  /\ pc' = "poll"
                  /\ hist' = CycleBegins(hist, meas)
                  /\ UNCHANGED <<now, status>>
     ELSE /\ updateTimeout' = TimeoutAfterCheck(updateTimeout, now)
          /\ pc' = "dump"
          /\ UNCHANGED <<now, status, readIdx, cnt, hist>>
  /\ UNCHANGED <<variant, openChannelTimeout, dump, meas, validValues, firstDump,
                 tail, meter, payload>>
  /\ UNCHANGED busvars

\* one "cnt += updateValue(x, readValue(code))" of updateValues(); the last one
\* is followed by "validValues = cnt" and updateLCD()
ReadStep ==
  /\ pc = "poll"
  /\ \E q \in {ReadPlan(variant)[readIdx]} :
     \E r \in {readValue(variant, q.kind, openChannelTimeout, now,
                          MeterReply(meter, "open", payload),
                          MeterReply(meter, q.kind, payload))} :
     \E u \in {updateValue(variant, Current(meas, q), r.value, q.prec2, q.prec)} :
     LET last == readIdx = Len(ReadPlan(variant))
         h    == IF variant = "status" THEN hist ELSE SessionSeen(hist, r.chan, now)
         hs   == StoreSeen(h, q, r, u, Current(meas, q),
                           MeterReply(meter, q.kind, payload),
                           ValidTable[meter, q.kind, payload])
     IN  /\ meas' = Store(meas, q, u.value)
         /\ cnt' = cnt + u.inc
         /\ openChannelTimeout' = r.tm
         /\ now' = r.t
         /\ hist' = ReadSeen(hs, r, last)
         /\ readIdx' = IF last THEN 0 ELSE readIdx + 1
         /\ pc' = IF last THEN "dump" ELSE "poll"
         /\ validValues' = IF last /\ variant # "status" THEN cnt' ELSE validValues
  /\ UNCHANGED <<variant, updateTimeout, dump, status, firstDump, tail, meter, payload>>
  /\ UNCHANGED busvars

\* dumpState()
DumpState ==
  /\ pc = "dump"
  /\ IF TimeoutFires(dump, now)
     THEN makeDump(IF firstDump THEN DUMP_FIRST ELSE DUMP_REGULAR,
                   TimeoutAfterCheck(dump, now), hist)
     ELSE UNCHANGED <<dump, firstDump, tail, hist>>
  /\ pc' = "cmd"
  /\ UNCHANGED <<variant, now, updateTimeout, openChannelTimeout, meas, validValues,
                 status, readIdx, cnt, meter, payload>>
  /\ UNCHANGED busvars

\* the commands parseCommand() can return
Commands == {CMD_NONE, CMD_QUERY}

\* executeCommand(parseCommand()), parseCommand() returning cmd; only the "full"
\* variant's loop() makes the call
ExecuteCommand(cmd) ==
  /\ pc = "cmd"
  /\ IF variant = "full" /\ cmd = CMD_QUERY
     THEN makeDump(DUMP_QUERY, dump, [hist EXCEPT !.queries = @ + 1])
     ELSE UNCHANGED <<dump, firstDump, tail, hist>>
  /\ pc' = "idle"
  /\ UNCHANGED <<variant, now, updateTimeout, openChannelTimeout, meas, validValues,
                 status, readIdx, cnt, meter, payload>>
  /\ UNCHANGED busvars

\* the earliest time at which an enabled timer of the loop expires
NextDeadline ==
  LET ats == {tm.at : tm \in {x \in {updateTimeout, dump} : x.on}}
  IN  IF ats = {} THEN now
      ELSE CHOOSE a \in ats : \A b \in ats : a <= b

\* the iterations of loop() in which no timer has expired: time passes until the
\* next one does
LoopIdle ==
  /\ pc = "idle"
  /\ now' = IF NextDeadline > now THEN NextDeadline ELSE now
  /\ pc' = "update"
  /\ UNCHANGED <<variant, updateTimeout, openChannelTimeout, dump, meas, validValues,
                 status, firstDump, tail, readIdx, cnt, meter, payload, hist>>
  /\ UNCHANGED busvars

\* environment: the meter starts to answer differently
MeterChange ==
  /\ hist.changes < MaxMeterChanges
  /\ \/ pc = "poll"
     \/ pc = "update" /\ hist.polls < MaxPolls
  /\ \E m \in MeterModes \ {meter} : meter' = m
  /\ hist' = [hist EXCEPT !.changes = @ + 1]
  /\ UNCHANGED <<variant, now, pc, updateTimeout, openChannelTimeout, dump, meas,
                 validValues, status, firstDump, tail, readIdx, cnt, payload>>
  /\ UNCHANGED busvars

\* Spec: at most MaxPolls poll cycles
PollUpdateState == hist.polls < MaxPolls /\ UpdateState

\* Spec: no command arrives
NoCommand == ExecuteCommand(CMD_NONE)

\* Poll cycles under a meter that changes its behaviour
Next ==
  \/ PollUpdateState
  \/ ReadStep
  \/ DumpState
  \/ NoCommand
  \/ LoopIdle
  \/ MeterChange

Spec == Init /\ [][Next]_vars

-----------------------------------------------------------------------------
(* SpecDump: the loop over more than a dump period, under a meter that      *)
(* keeps answering the same way; query commands arrive                      *)

InitDump ==
  /\ Init
  /\ meter \in {"ok", "silent"}
  /\ payload = <<0, 100, 0, 0>>

DumpUpdateState == now <= MaxTime /\ UpdateState

\* parseCommand() returns what has arrived on the serial input
AnyCommand ==
  \E cmd \in Commands :
    /\ cmd = CMD_QUERY => (hist.queries < MaxQueries /\ now <= MaxQueryTime)
    /\ ExecuteCommand(cmd)

NextDump ==
  \/ DumpUpdateState
  \/ ReadStep
  \/ DumpState
  \/ AnyCommand
  \/ LoopIdle

SpecDump == InitDump /\ [][NextDump]_vars

-----------------------------------------------------------------------------
(* SpecSession: checkChannel() called at any time, the meter answering any  *)
(* way to each open-channel request                                         *)

InitSession ==
  /\ Init
  /\ variant # "status"
  /\ meter = "ok"
  /\ payload = <<0, 100, 0, 0>>

SessionWaits == {RS485_DELAY, OPEN_CHANNEL_PERIOD - RS485_DELAY}

\* a call of checkChannel(), as readValue() and readEnergy() make it
SessionCall ==
  /\ hist.steps < MaxSessionSteps
  /\ \E mode \in MeterModes :
       LET c == checkChannel(variant, openChannelTimeout, now,
                             MeterReply(mode, "open", payload))
       IN  /\ openChannelTimeout' = c.tm
           /\ now' = c.t
           /\ hist' = [SessionSeen(hist, c, now) EXCEPT !.steps = @ + 1]
  /\ UNCHANGED <<variant, pc, updateTimeout, dump, meas, validValues, status,
                 firstDump, tail, readIdx, cnt, meter, payload>>
  /\ UNCHANGED busvars

\* time passes between two calls
SessionWait ==
  /\ hist.steps < MaxSessionSteps
  /\ \E d \in SessionWaits : now' = now + d
  /\ hist' = [hist EXCEPT !.steps = @ + 1]
  /\ UNCHANGED <<variant, pc, updateTimeout, openChannelTimeout, dump, meas,
                 validValues, status, firstDump, tail, readIdx, cnt, meter,
                 payload>>
  /\ UNCHANGED busvars

NextSession ==
  \/ SessionCall
  \/ SessionWait

SpecSession == InitSession /\ [][NextSession]_vars

-----------------------------------------------------------------------------
(* SpecExchange: the loop with sendReceiveRaw() taken step by step: the      *)
(* drain, the settle delay, the write and the iterations of the read loop.   *)
(* The meter's answer arrives as a whole, ReplyTime after the request or,    *)
(* when it is late, LateBy after the exchange has timed out. The meter keeps *)
(* its way of answering: as in MeterModes, or "late" with every answer, or   *)
(* "slow", late with the answers to read requests only.                      *)

BusModes == MeterModes \cup {"late", "slow"}

\* the bytes the meter sends in answer to a request
ReplyBytes(mode, kind, p) ==
  IF mode \in {"late", "slow"} THEN MeterReply("ok", kind, p)
  ELSE MeterReply(mode, kind, p)

\* the time from the request to the arrival of the answer
ReplyDelay(v, mode, kind) ==
  IF mode = "late" \/ (mode = "slow" /\ kind # "open")
  THEN RS485_TIMEOUT(v) + LateBy
  ELSE ReplyTime

\* bytes as the receive buffer holds them; old: received before the request of
\* the exchange in progress was written; left: received before that exchange began
Received(bytes) ==
  [i \in 1..Len(bytes) |-> [b |-> bytes[i], old |-> FALSE, left |-> FALSE]]

MarkOld(buf) == [i \in 1..Len(buf) |-> [buf[i] EXCEPT !.old = TRUE]]

MarkLeft(buf) == [i \in 1..Len(buf) |-> [buf[i] EXCEPT !.left = TRUE]]

\* the receive buffer and the line once millis() has reached t
Deliver(buf, ln, t) ==
  IF ln.bytes # << >> /\ ln.at <= t
  THEN [rx |-> buf \o Received(ln.bytes), line |-> LineIdle]
  ELSE [rx |-> buf, line |-> ln]

\* while (rs485.available()) rs485.read(): present in part_000 and part_001
Drain(v, buf) == IF v = "status" THEN buf ELSE << >>

\* a plausible slip: the read loop without its deadline
ReadLoopNoTimeout(tm, t, n, size) == n < size

\* while (!timeout.check() && n < resp_size)
ReadLoopRuns(tm, t, n, size) == ~TimeoutFires(tm, t) /\ n < size

InitExchange ==
  /\ variant \in Variants
  /\ now = 0
  /\ pc = "update"
  /\ updateTimeout = TimeoutReset(0, 0)
  /\ openChannelTimeout = TimeoutReset(0, 0)
  /\ dump = TimeoutReset(0, INITIAL_DUMP_INTERVAL)
  /\ meas = Meas0
  /\ validValues = 0
  /\ status = STATUS_UNKNOWN
  /\ firstDump = TRUE
  /\ tail = <<HIGHLIGHT_CHAR, " ", NUL>>
  /\ readIdx = 0
  /\ cnt = 0
  /\ meter \in BusModes
  /\ payload = <<0, 100, 0, 0>>
  /\ hist = Hist0
  /\ rx = << >>
  /\ line = LineIdle
  /\ xchg = XchgIdle

\* updateState() up to the first exchange of updateValues(); readIdx = 0 stands
\* for the openChannel() that begins updateValues() in the "status" variant
XUpdateState ==
  /\ pc = "update"
  /\ hist.polls < MaxExchangePolls
  /\ IF TimeoutFires(updateTimeout, now)
     THEN /\ updateTimeout' = PollRearm(now)
          /\ cnt' = IF variant = "status" THEN cnt ELSE cntInit(cnt)
          /\ readIdx' = IF variant = "status" THEN 0 ELSE 1
          /\ pc' = "poll"
          /\ hist' = CycleBegins(hist, meas)
     ELSE /\ updateTimeout' = TimeoutAfterCheck(updateTimeout, now)
          /\ pc' = "dump"
          /\ UNCHANGED <<readIdx, cnt, hist>>
  /\ UNCHANGED <<variant, now, openChannelTimeout, dump, meas, validValues, status,
                 firstDump, tail, meter, payload, rx, line, xchg>>

\* sendReceiveRaw() up to the read loop: drain, write-enable, delay(RS485_DELAY),
\* write, read-enable, Timeout timeout(RS485_TIMEOUT), n = 0. From "idle" the
\* exchange is the one checkChannel() makes when the session timer fires, else
\* the read of the quantity. The drain loop is one step: bytes arrive slower
\* than it reads them.
XBegin ==
  /\ pc = "poll"
  /\ xchg.phase \in {"idle", "opened"}
  /\ LET checks == xchg.phase = "idle" /\ variant # "status"
         kind   == IF readIdx = 0 THEN "open"
                   ELSE IF checks /\ TimeoutFires(openChannelTimeout, now) THEN "open"
                   ELSE ReadPlan(variant)[readIdx].kind
         t1     == now + RS485_DELAY
         d      == Deliver(Drain(variant, MarkLeft(rx)), line, t1)
     IN  /\ openChannelTimeout' = IF checks THEN TimeoutAfterCheck(openChannelTimeout, now)
                                  ELSE openChannelTimeout
         /\ now' = t1
         /\ rx' = MarkOld(d.rx)
         /\ line' = IF meter = "silent" THEN d.line
                    ELSE [bytes |-> ReplyBytes(meter, kind, payload),
                          at    |-> t1 + ReplyDelay(variant, meter, kind)]
         /\ xchg' = [phase |-> "read", kind |-> kind,
                     size |-> CASE kind = "open" -> 4 [] kind = "value" -> 6
                                [] kind = "energy" -> 19,
                     n |-> 0, resp |-> << >>,
                     timeout |-> TimeoutReset(t1, RS485_TIMEOUT(variant)),
                     stale |-> FALSE, leftover |-> FALSE, ended |-> "none"]
  /\ UNCHANGED <<variant, pc, updateTimeout, dump, meas, validValues, status,
                 firstDump, tail, readIdx, cnt, meter, payload, hist>>

\* an iteration of the read loop with a byte available: resp[n++] = rs485.read()
XRead ==
  /\ xchg.phase = "read"
  /\ ReadLoopRuns(xchg.timeout, now, xchg.n, xchg.size)
  /\ rx # << >>
  /\ xchg' = [xchg EXCEPT !.n = @ + 1,
                          !.resp = Append(@, Head(rx).b),
                          !.stale = @ \/ Head(rx).old,
                          !.leftover = @ \/ Head(rx).left]
  /\ rx' = Tail(rx)
  /\ UNCHANGED <<variant, now, pc, updateTimeout, openChannelTimeout, dump, meas,
                 validValues, status, firstDump, tail, readIdx, cnt, meter, payload,
                 hist, line>>

\* the next time at which the read loop finds something new: a byte or its deadline
NextEvent ==
  LET ats == {xchg.timeout.at} \cup (IF line.bytes # << >> THEN {line.at} ELSE {})
      fut == {a \in ats : a > now}
  IN  IF fut = {} THEN now ELSE CHOOSE a \in fut : \A b \in fut : a <= b

\* the iterations of the read loop with nothing available: the clock advances
XWait ==
  /\ xchg.phase = "read"
  /\ ReadLoopRuns(xchg.timeout, now, xchg.n, xchg.size)
  /\ rx = << >>
  /\ LET d == Deliver(rx, line, NextEvent)
     IN  /\ now' = NextEvent
         /\ rx' = d.rx
         /\ line' = d.line
  /\ UNCHANGED <<variant, pc, updateTimeout, openChannelTimeout, dump, meas,
                 validValues, status, firstDump, tail, readIdx, cnt, meter, payload,
                 hist, xchg>>

\* the read loop has ended: sendReceiveRaw() returns n and its callers go on:
\* openChannel() and checkChannel(), or readValue(), updateValue() and the
\* next read of updateValues()
XEnd ==
  /\ xchg.phase = "read"
  /\ ~ReadLoopRuns(xchg.timeout, now, xchg.n, xchg.size)
  /\ LET plan   == ReadPlan(variant)
         isOpen == xchg.kind = "open"
         opened == isOpen /\ openChannel(variant, xchg.resp).ok
         r      == sendReceive(variant, xchg.resp, xchg.size)
         q      == plan[IF readIdx = 0 THEN 1 ELSE readIdx]
         value  == IF isOpen \/ ~r.ok THEN FailValue(variant)
                   ELSE IF xchg.kind = "energy" THEN DecodeEnergy(r.resp)
                   ELSE DecodeValue(r.resp)
         u      == updateValue(variant, Current(meas, q), value, q.prec2, q.prec)
         last   == readIdx = Len(plan)
         ended  == [xchg EXCEPT !.phase = "idle", !.timeout = TimeoutDisabled,
                                !.ended = IF xchg.n >= xchg.size THEN "full"
                                          ELSE "timeout"]
     IN  IF readIdx = 0
         THEN \* updateValues() of the "status" variant: if (!openChannel()) return
              /\ status' = IF opened THEN STATUS_OK ELSE STATUS_UNKNOWN
              /\ readIdx' = IF opened THEN 1 ELSE 0
              /\ pc' = IF opened THEN "poll" ELSE "dump"
              /\ xchg' = ended
              /\ UNCHANGED <<openChannelTimeout, meas, cnt, validValues>>
         ELSE IF opened
         THEN \* checkChannel(): openChannelTimeout.reset(OPEN_CHANNEL_PERIOD)
              /\ openChannelTimeout' = TimeoutReset(now, OPEN_CHANNEL_PERIOD)
              /\ xchg' = [ended EXCEPT !.phase = "opened"]
              /\ UNCHANGED <<status, readIdx, pc, meas, cnt, validValues>>
         ELSE /\ meas' = Store(meas, q, u.value)
              /\ cnt' = cnt + u.inc
              /\ readIdx' = IF last THEN 0 ELSE readIdx + 1
              /\ pc' = IF last THEN "dump" ELSE "poll"
              /\ validValues' = IF last /\ variant # "status" THEN cnt' ELSE validValues
              /\ xchg' = ended
              /\ UNCHANGED <<status, openChannelTimeout>>
  /\ UNCHANGED <<variant, now, updateTimeout, dump, firstDump, tail, meter, payload,
                 hist, rx, line>>

\* the iterations of loop() in which no timer has expired; an answer still on
\* its way arrives
XLoopIdle ==
  /\ pc = "idle"
  /\ LET t1 == IF NextDeadline > now THEN NextDeadline ELSE now
         d  == Deliver(rx, line, t1)
     IN  /\ now' = t1
         /\ rx' = d.rx
         /\ line' = d.line
  /\ pc' = "update"
  /\ UNCHANGED <<variant, updateTimeout, openChannelTimeout, dump, meas, validValues,
                 status, firstDump, tail, readIdx, cnt, meter, payload, hist, xchg>>

NextExchange ==
  \/ XUpdateState
  \/ XBegin
  \/ XRead
  \/ XWait
  \/ XEnd
  \/ DumpState
  \/ NoCommand
  \/ XLoopIdle

\* the program keeps running and the clock keeps advancing
SpecExchange == InitExchange /\ [][NextExchange]_vars /\ WF_vars(NextExchange)

-----------------------------------------------------------------------------
(* SpecLive: the loop of part_000 running for ever, a query command arriving *)
(* in any iteration. The program compares millis() with its deadlines only,  *)
(* so the origin of time is moved to the present at the end of each          *)
(* iteration; updateValues() is taken as one step. The meter is one that     *)
(* opens no session (a poll cycle then always lasts the same time): makeDump *)
(* of part_000 looks at no reading.                                          *)

\* updateValues() of part_000 and part_001 from read i on: the measurement
\* set, cnt, the session timer and the time after the last read
RECURSIVE updateValuesFrom(_, _, _, _, _)
updateValuesFrom(v, i, acc, mode, p) ==
  IF i > Len(ReadPlan(v)) THEN acc
  ELSE LET q == ReadPlan(v)[i]
       IN  CHOOSE res \in
             UNION { UNION { { updateValuesFrom(v, i + 1,
                                                [meas |-> Store(a.meas, q, u.value),
                                                 cnt  |-> a.cnt + u.inc,
                                                 tm   |-> r.tm,
                                                 t    |-> r.t],
                                                mode, p)
                               : u \in {updateValue(v, Current(a.meas, q), r.value,
                                                    q.prec2, q.prec)} }
                             : r \in {readValue(v, q.kind, a.tm, a.t,
                                                MeterReply(mode, "open", p),
                                                MeterReply(mode, q.kind, p))} }
                     : a \in {acc} } : TRUE

\* the meters of SpecLive, and the states of the session timer they leave
LiveMeters == MeterModes \ {"ok"}
LiveSessionTimers == {TimeoutReset(0, 0), TimeoutDisabled}
LivePayload == <<0, 100, 0, 0>>

\* updateValues() of part_000 begun at time 0 with the initial measurement set,
\* worked out once for each meter and session timer of SpecLive
updateValuesTable ==
  [mode \in LiveMeters, tm \in LiveSessionTimers |->
     updateValuesFrom("full", 1, [meas |-> Meas0, cnt |-> cntInit(0), tm |-> tm, t |-> 0],
                      mode, LivePayload)]

\* updateValues(): the table's entry where there is one
updateValues(v, m, c, tm, t, mode, p) ==
  IF /\ v = "full" /\ m = Meas0 /\ c = cntInit(0) /\ t = 0 /\ p = LivePayload
     /\ mode \in LiveMeters /\ tm \in LiveSessionTimers
  THEN updateValuesTable[mode, tm]
  ELSE updateValuesFrom(v, 1, [meas |-> m, cnt |-> c, tm |-> tm, t |-> t], mode, p)

\* a timer seen from an origin of time d later; an expired one stays expired
TimeoutShift(tm, d) ==
  IF tm.on THEN [on |-> TRUE, at |-> IF tm.at > d THEN tm.at - d ELSE 0] ELSE tm

InitLive ==
  /\ Init
  /\ variant = "full"
  /\ meter \in LiveMeters
  /\ payload = LivePayload

\* updateState(), with the whole of updateValues()
LiveUpdateState ==
  /\ pc = "update"
  /\ IF TimeoutFires(updateTimeout, now)
     THEN \E a \in {updateValues(variant, meas, cntInit(cnt), openChannelTimeout, now,
                                 meter, payload)} :
            /\ updateTimeout' = PollRearm(now)
            /\ meas' = a.meas
            /\ cnt' = a.cnt
            /\ validValues' = a.cnt
            /\ openChannelTimeout' = a.tm
            /\ now' = a.t
     ELSE /\ updateTimeout' = TimeoutAfterCheck(updateTimeout, now)
          /\ UNCHANGED <<meas, cnt, validValues, openChannelTimeout, now>>
  /\ pc' = "dump"
  /\ UNCHANGED <<variant, dump, status, firstDump, tail, readIdx, meter, payload, hist>>
  /\ UNCHANGED busvars

\* executeCommand(parseCommand()), whatever has arrived on the serial input
LiveCommand ==
  /\ pc = "cmd"
  /\ \E cmd \in Commands :
       IF cmd = CMD_QUERY
       THEN makeDump(DUMP_QUERY, dump, hist)
       ELSE UNCHANGED <<dump, firstDump, tail, hist>>
  /\ pc' = "idle"
  /\ UNCHANGED <<variant, now, updateTimeout, openChannelTimeout, meas, validValues,
                 status, readIdx, cnt, meter, payload>>
  /\ UNCHANGED busvars

\* the iterations of loop() in which no timer has expired; afterwards time is
\* counted from the present and the dumps of the past iteration are forgotten
LiveLoopIdle ==
  /\ pc = "idle"
  /\ LET t1 == IF NextDeadline > now THEN NextDeadline ELSE now
     IN  /\ now' = 0
         /\ updateTimeout' = TimeoutShift(updateTimeout, t1)
         /\ openChannelTimeout' = TimeoutShift(openChannelTimeout, t1)
         /\ dump' = TimeoutShift(dump, t1)
  /\ hist' = Hist0
  /\ pc' = "update"
  /\ UNCHANGED <<variant, meas, validValues, status, firstDump, tail, readIdx, cnt,
                 meter, payload>>
  /\ UNCHANGED busvars

NextLive ==
  \/ LiveUpdateState
  \/ DumpState
  \/ LiveCommand
  \/ LiveLoopIdle

\* the loop keeps running
SpecLive == InitLive /\ [][NextLive]_vars /\ WF_vars(NextLive)

-----------------------------------------------------------------------------
(* Claims *)

\* C1 (as stated): executeCommand(CMD_QUERY) -> makeDump(DUMP_QUERY) leaves the
\* deadline of the periodic dump unchanged, so the next automatic dump fires
\* when it would have fired without the query.
C1_QueryKeepsDeadline ==
  [][(pc = "cmd" /\ pc' = "idle") => dump' = dump]_vars

\* C2 (as stated): the very first dump emitted after startup is emitted no later
\* than INITIAL_DUMP_INTERVAL after boot and its summary line ends with the
\* first-dump marker '*' alone.
C2_FirstDumpPromptAndMarked ==
  hist.firstOutAt # -1 =>
    /\ hist.firstOutAt <= INITIAL_DUMP_INTERVAL
    /\ hist.firstOutMark = <<HIGHLIGHT_CHAR>>

\* C3 (as stated): makeDump(DUMP_FIRST) is called exactly once per run: never
\* twice, and firstDump has become false only by that one call.
C3_FirstDumpExactlyOnce ==
  /\ hist.firstCount <= 1
  /\ ~firstDump => hist.firstCount = 1

C5_SessionWindow ==
  (hist.called /\ hist.callPrevOpened # -1) =>
    /\ hist.callAt - hist.callPrevOpened < OPEN_CHANNEL_PERIOD =>
         (hist.callRet /\ hist.callExch = 0)
    /\ (hist.callAt - hist.callPrevOpened >= OPEN_CHANNEL_PERIOD /\ hist.callFirstAfter) =>
         hist.callExch = 1

\* C5 witness: the first call after the window of an earlier successful open has
\* expired, with its one exchange, which failed.
C5_ReopenAfterExpiry ==
  /\ hist.called
  /\ hist.callPrevOpened # -1
  /\ hist.callAt - hist.callPrevOpened >= OPEN_CHANNEL_PERIOD
  /\ hist.callFirstAfter
  /\ hist.callExch = 1
  /\ hist.callOpenFailed

C7_FailFast ==
  hist.cycAfterFail = 0

\* C8: a poll cycle in which every exchange failed leaves the measurement set as
\* it was before the cycle and sets validValues to 0 (part_000, part_001).
C8_AllFailKeepsValues ==
  (variant # "status" /\ hist.cycDone /\ hist.cycExch > 0 /\ hist.cycFail = hist.cycExch) =>
    /\ meas = hist.measBefore
    /\ validValues = 0

\* C8 witness: such a cycle has ended, with measurements stored by an earlier one.
C8_AllFailAfterValues ==
  /\ variant # "status"
  /\ hist.cycDone
  /\ hist.cycFail = hist.cycExch
  /\ hist.measBefore # Meas0
  /\ meas.amps[2] # 0

\* C9 (as stated): a poll cycle in which every exchange succeeded sets validValues
\* to the number of quantities (13 in part_000, 11 in part_001), whatever values
\* the answers carry.
C9_AllOkCountsAll ==
  (variant # "status" /\ hist.cycDone /\ hist.cycExch > 0 /\ hist.cycFail = 0) =>
    validValues = ExpectedCount(variant)

\* C10: validValues is within 0 .. N, N the number of quantities (13 in part_000,
\* 11 in part_001).
C10_ValidValuesInRange ==
  variant # "status" => (validValues >= 0 /\ validValues <= ExpectedCount(variant))

\* C10 witness: a second poll cycle has ended with all but some quantities counted.
C10_PartialSecondCycle ==
  /\ variant # "status"
  /\ hist.cycDone
  /\ hist.polls = 2
  /\ validValues > 0
  /\ validValues < ExpectedCount(variant)

\* C11 (as stated): a read of a poll cycle that did not return a full-length,
\* checksum-valid response leaves the stored value of its quantity as it was, in
\* all three variants.
C11_FailedReadKeepsValue ==
  (hist.rd.seen /\ ~hist.rd.ok) => hist.rd.new = hist.rd.old

\* C12: sendReceive answers true exactly when resp_size bytes were collected and
\* the last two of them are the checksum of the bytes before them.
C12_SendReceiveIff ==
  hist.rd.sent => (hist.rd.ok <=> (hist.rd.n = hist.rd.size /\ hist.rd.valid))

\* C12 witness: a full-length answer with a wrong checksum was refused.
C12_FullLengthRefused ==
  /\ hist.rd.sent
  /\ hist.rd.n = hist.rd.size
  /\ ~hist.rd.valid
  /\ ~hist.rd.ok

\* C13 (as stated): no dump is printed as long as no read has ever succeeded, in
\* every variant.
C13_NoDumpBeforeReading ==
  hist.dumps > 0 => hist.anyReadOk

\* C14: the text printed after ']' is that of the dump's flavor, whatever the
\* earlier dumps left in the template: nothing for a regular dump, '*' for the
\* first dump, '?*' for an on-demand dump; its terminating NUL is in dumpSLine.
C14_MarkerByFlavor ==
  hist.lastKind # "none" =>
    /\ hist.lastMark = CASE hist.lastKind = "regular" -> << >>
                         [] hist.lastKind = "first"   -> <<HIGHLIGHT_CHAR>>
                         [] hist.lastKind = "query"   -> <<DUMP_QUERY, HIGHLIGHT_CHAR>>
    /\ \E i \in 1..Len(tail) : tail[i] = NUL /\ i = Len(hist.lastMark) + 1

\* C14 witness: a regular dump printed after an on-demand dump had written '?*'
\* into the template.
C14_RegularAfterQuery ==
  /\ hist.lastKind = "regular"
  /\ hist.queries > 0
  /\ hist.lastMark = << >>
  /\ tail = <<NUL, HIGHLIGHT_CHAR, NUL>>

\* C15 (as stated): after a read that returned a full-length, checksum-valid
\* response the stored value is the raw integer of the response converted with
\* the quantity's scale, and the read is counted as an update.
C15_GoodReadStored ==
  hist.rd.ok =>
    LET raw == IF hist.rd.kind = "energy"
               THEN payload[3] + payload[4] * 256 + payload[1] * 65536
                    + (IF payload[2] >= 128 THEN payload[2] - 256 ELSE payload[2]) * 16777216
               ELSE (payload[1] % 64) * 65536 + payload[3] * 256 + payload[2]
        mul == Pow10(hist.rd.prec2 - hist.rd.prec)
    IN  /\ hist.rd.new = (raw + mul \div 2) \div mul
        /\ variant # "status" => hist.rd.inc = 1

C19_PollGated ==
  hist.cycGap # -1 => hist.cycGap >= UPDATE_PERIOD

\* C19 witness: a poll cycle that started later than UPDATE_PERIOD after the
\* start of the one before it, which took longer than that.
C19_SecondCycleLater ==
  /\ hist.polls = 2
  /\ hist.cycGap > UPDATE_PERIOD

\* C20: the value readValue returns for a full-length, checksum-valid 6-byte
\* response is (resp[1] & 0x3F) << 16 | resp[3] << 8 | resp[2]: within 0..0x3FFFFF,
\* never INVALID_VALUE, and 0x64 for the bytes 00 64 00.
C20_ReadValueDecoding ==
  (hist.rd.ok /\ hist.rd.kind = "value") =>
    /\ hist.rd.value = (payload[1] % 64) * 65536 + payload[3] * 256 + payload[2]
    /\ hist.rd.value >= 0
    /\ hist.rd.value <= 4194303
    /\ hist.rd.value # INVALID_VALUE
    /\ (payload[1] = 0 /\ payload[2] = 100 /\ payload[3] = 0) => hist.rd.value = 100

\* C20 witness: a response whose resp[1] has its two high bits set was decoded.
C20_HighBitsDecoded ==
  /\ hist.rd.ok
  /\ hist.rd.kind = "value"
  /\ payload[1] = 255
  /\ hist.rd.value = 4194175

\* C17 (as stated): no byte that was in the receive buffer before the request was
\* written is returned as part of the response to that request, in every variant.
C17_NoStaleByteReturned ==
  ~xchg.stale

\* C18: every exchange ends, by collecting resp_size bytes or by its deadline, with
\* 0 <= n <= resp_size and n bytes written to resp; every poll cycle ends and
\* every iteration of the loop is followed by the next one.
C18_Terminates ==
  /\ [](xchg.n >= 0 /\ xchg.n <= xchg.size /\ Len(xchg.resp) = xchg.n)
  /\ (xchg.phase = "read") ~> (xchg.phase # "read")
  /\ (pc = "poll") ~> (pc = "dump")
  /\ (pc # "update") ~> (pc = "update")

\* C18 witness: the loop is back at its start after a poll cycle whose last
\* exchange was ended by its deadline with some but not all bytes collected.
C18_BackAfterShortAnswer ==
  /\ pc = "update"
  /\ hist.polls = MaxExchangePolls
  /\ xchg.ended = "timeout"
  /\ xchg.n > 0
  /\ xchg.n < xchg.size

\* C21 (as stated): in part_000, the loop running for ever, an automatic dump
\* (first or regular) is printed again and again, whatever query commands arrive.
C21_AutoDumpRecurs ==
  []<>(hist.lastKind \in {"first", "regular"})

\* C22: in every variant firstDump is true exactly as long as no dump has been
\* printed since startup; a makeDump call that prints nothing (status is not
\* STATUS_OK in ElectricityMeter.ino) leaves firstDump and the template as they
\* are and does not re-arm the dump timer; a makeDump call that prints, from
\* dumpState or from a query command, leaves firstDump false.
C22_FirstDumpUntilPrinted ==
  /\ [](firstDump <=> hist.dumps = 0)
  /\ [][(pc = "dump" /\ pc' = "cmd" /\ TimeoutFires(dump, now)) =>
          IF variant = "status" /\ status # STATUS_OK
          THEN /\ firstDump' = firstDump
               /\ tail' = tail
               /\ dump' = TimeoutAfterCheck(dump, now)
               /\ hist'.dumps = hist.dumps
          ELSE /\ ~firstDump'
               /\ hist'.dumps > 0]_vars
  /\ [][(pc = "cmd" /\ pc' = "idle" /\ hist'.queries # hist.queries) =>
          (~firstDump' /\ hist'.dumps > 0)]_vars

\* C22 witness: the dump timer has expired with status not STATUS_OK; nothing
\* was printed, the timer is left as check() left it and firstDump is still true
C22_SuppressedKeepsFirstDump ==
  /\ variant = "status"
  /\ status # STATUS_OK
  /\ pc = "cmd"
  /\ ~dump.on
  /\ firstDump
  /\ hist.dumps = 0

====
